---- MODULE Spec2Model ----
\* Model of the ring-buffer FIFO queue of src/Queue.go (package DataStructures).
\* The queue's four fields are the state; every exported method is one action.
\* Go slices are 0-based, TLA+ sequences 1-based: slot i of the Go buffer is
\* buffer[i + 1] here, and At/Set/Slice do the translation.
EXTENDS Integers, Sequences, FiniteSets, TLC

\* ------------------------------------------------------------------------
\* Bounds of the exploration
\* ------------------------------------------------------------------------

\* Most entries the driver lets the queue hold (9 entries reach capacity 16,
\* from which a shrink 16 -> 8 with a wrapped live range is possible).
MaxLen == 9

\* Most entries held under the rendering specification SpecRender (4 entries
\* fill a buffer of 4, where the live range wraps).
MaxRenderLen == 4

\* ------------------------------------------------------------------------
\* Values of type interface{}
\* ------------------------------------------------------------------------

\* The nil interface value, and a Go string boxed in an interface.
Nil == [type |-> "nil"]
Str(s) == [type |-> "string", s |-> s]

\* The values pushed under Spec and under SpecRender.
Values == {Nil, Str("A")}
RenderValues == {Nil, Str("A"), Str("B"), Str("C"), Str("D")}

\* fmt.Sprintf("%v", v): a string prints as itself, the nil interface as <nil>.
Sprintf(v) == IF v = Nil THEN "<nil>" ELSE v.s

\* ------------------------------------------------------------------------
\* Go built-ins used by the queue
\* ------------------------------------------------------------------------

Min(a, b) == IF a < b THEN a ELSE b

\* make([]interface{}, n): n slots, all nil.
Make(n) == [i \in 1..n |-> Nil]

\* s[i] and s[i] = v for a 0-based index i; the caller checks InRange first.
InRange(s, i) == i >= 0 /\ i < Len(s)
At(s, i) == s[i + 1]
Set(s, i, v) == [s EXCEPT ![i + 1] = v]

\* s[lo:hi]; legal (no panic) exactly when 0 <= lo <= hi <= len(s).
SliceOK(s, lo, hi) == 0 <= lo /\ lo <= hi /\ hi <= Len(s)
Slice(s, lo, hi) == SubSeq(s, lo + 1, hi)

\* copy(dst[off:], src): copies min(len(dst) - off, len(src)) elements and
\* returns that count; CopyN is the count, Copy the destination afterwards.
CopyN(dst, off, src) == Min(Len(dst) - off, Len(src))
Copy(dst, off, src) ==
  [i \in 1..Len(dst) |->
     IF i > off /\ i <= off + CopyN(dst, off, src) THEN src[i - off] ELSE dst[i]]

\* a & b on non-negative ints, bit by bit; -1 (all ones) is the mask of an
\* empty buffer.
RECURSIVE BitAnd(_, _)
BitAnd(a, b) ==
  IF b = -1 THEN a
  ELSE IF a = 0 \/ b = 0 THEN 0
  ELSE (a % 2) * (b % 2) + 2 * BitAnd(a \div 2, b \div 2)

\* ------------------------------------------------------------------------
\* The queue: a value q is a record of the four fields of struct Queue plus
\* panic, which is TRUE once an index or slice expression went out of range.
\* ------------------------------------------------------------------------

Queue(b, h, t, l, p) == [buffer |-> b, head |-> h, tail |-> t, length |-> l, panic |-> p]

Panic(q) == [q EXCEPT !.panic = TRUE]

\* nextpos masking with the buffer length itself instead of length - 1.
nextpos_maskIsLen(q, i) == BitAnd(i + 1, Len(q.buffer))

\* func (q *Queue) nextpos(i int) int
nextpos(q, i) == BitAnd(i + 1, Len(q.buffer) - 1)

\* func (q *Queue) prevpos(i int) int; -1 & mask is the mask itself.
prevpos(q, i) == IF i = 0 THEN Len(q.buffer) - 1 ELSE BitAnd(i - 1, Len(q.buffer) - 1)

\* init with the buffer left empty (make([]interface{}, 0)).
init_emptyBuffer(q) == Queue(Make(0), 0, 0, 0, q.panic)

\* func (q *Queue) init() *Queue
init(q) == Queue(Make(1), 0, 0, 0, q.panic)

\* resize whose second copy of the wrapped case writes at the start of the
\* new buffer: copy(newbuffer, q.buffer[:q.tail]).
resize_secondCopyAtStart(q, size) ==
  LET sz == IF size % 2 # 0 THEN size + 1 ELSE size
      newbuffer == Make(sz)
  IN IF q.head < q.tail
     THEN IF ~SliceOK(q.buffer, q.head, q.tail) THEN Panic(q)
          ELSE Queue(Copy(newbuffer, 0, Slice(q.buffer, q.head, q.tail)),
                     0, q.length, q.length, q.panic)
     ELSE IF ~SliceOK(q.buffer, q.head, Len(q.buffer)) THEN Panic(q)
          ELSE LET first == Slice(q.buffer, q.head, Len(q.buffer))
                   b1 == Copy(newbuffer, 0, first)
               IN IF ~SliceOK(q.buffer, 0, q.tail) THEN Panic(q)
                  ELSE Queue(Copy(b1, 0, Slice(q.buffer, 0, q.tail)),
                             0, q.length, q.length, q.panic)

\* resize taking the one-copy path also when head == tail (head <= tail).
resize_oneCopyWhenEqual(q, size) ==
  LET sz == IF size % 2 # 0 THEN size + 1 ELSE size
      newbuffer == Make(sz)
  IN IF q.head <= q.tail
     THEN IF ~SliceOK(q.buffer, q.head, q.tail) THEN Panic(q)
          ELSE Queue(Copy(newbuffer, 0, Slice(q.buffer, q.head, q.tail)),
                     0, q.length, q.length, q.panic)
     ELSE IF ~SliceOK(q.buffer, q.head, Len(q.buffer)) THEN Panic(q)
          ELSE LET first == Slice(q.buffer, q.head, Len(q.buffer))
                   n == CopyN(newbuffer, 0, first)
                   b1 == Copy(newbuffer, 0, first)
               IN IF ~SliceOK(q.buffer, 0, q.tail) THEN Panic(q)
                  ELSE Queue(Copy(b1, n, Slice(q.buffer, 0, q.tail)),
                             0, q.length, q.length, q.panic)

\* func (q *Queue) resize(size int)
resize(q, size) ==
  LET sz == IF size % 2 # 0 THEN size + 1 ELSE size
      newbuffer == Make(sz)
  IN IF q.head < q.tail
     THEN IF ~SliceOK(q.buffer, q.head, q.tail) THEN Panic(q)
          ELSE Queue(Copy(newbuffer, 0, Slice(q.buffer, q.head, q.tail)),
                     0, q.length, q.length, q.panic)
     ELSE IF ~SliceOK(q.buffer, q.head, Len(q.buffer)) THEN Panic(q)
          ELSE LET first == Slice(q.buffer, q.head, Len(q.buffer))
                   n == CopyN(newbuffer, 0, first)
                   b1 == Copy(newbuffer, 0, first)
               IN IF ~SliceOK(q.buffer, 0, q.tail) THEN Panic(q)
                  ELSE Queue(Copy(b1, n, Slice(q.buffer, 0, q.tail)),
                             0, q.length, q.length, q.panic)

\* grow that triples the buffer.
grow_triples(q) == resize(q, Len(q.buffer) * 3)

\* func (q *Queue) grow()
grow(q) == resize(q, Len(q.buffer) * 2)

\* func (q *Queue) shrink()
shrink(q) == resize(q, Len(q.buffer) \div 2)

\* excessCapacity without the test for the empty queue.
excessCapacity_noEmptyGuard(q) == q.length < Len(q.buffer) \div 4

\* excessCapacity with a threshold of 1/8 of the buffer.
excessCapacity_eighth(q) == q.length > 0 /\ q.length < Len(q.buffer) \div 8

\* excessCapacity with a threshold of 1/2 of the buffer.
excessCapacity_half(q) == q.length > 0 /\ q.length < Len(q.buffer) \div 2

\* excessCapacity with <= for <: a buffer exactly 1/4 used counts as excess.
excessCapacity_atQuarter(q) == q.length > 0 /\ q.length <= Len(q.buffer) \div 4

\* func (q *Queue) excessCapacity() bool
excessCapacity(q) == q.length > 0 /\ q.length < Len(q.buffer) \div 4

\* The assignments of Push advancing tail without wrapping (q.tail + 1).
PushStore_noWrap(q, entry) ==
  IF ~InRange(q.buffer, q.tail) THEN Panic(q)
  ELSE [q EXCEPT !.buffer = Set(q.buffer, q.tail, entry),
                 !.tail = q.tail + 1,
                 !.length = q.length + 1]

\* The assignments of Push after the lazy init and the growth check.
PushStore(q, entry) ==
  IF ~InRange(q.buffer, q.tail) THEN Panic(q)
  ELSE [q EXCEPT !.buffer = Set(q.buffer, q.tail, entry),
                 !.tail = nextpos(q, q.tail),
                 !.length = q.length + 1]

\* Push that grows one entry early: q.length + 1 == len(q.buffer).
Push_growsEarly(q, entry) ==
  LET q1 == IF Len(q.buffer) = 0 THEN init(q) ELSE q
      q2 == IF q1.length + 1 = Len(q1.buffer) THEN grow(q1) ELSE q1
  IN IF q2.panic THEN q2 ELSE PushStore(q2, entry)

\* Push that ignores a nil entry.
Push_rejectsNil(q, entry) ==
  LET q1 == IF Len(q.buffer) = 0 THEN init(q) ELSE q
      q2 == IF q1.length = Len(q1.buffer) THEN grow(q1) ELSE q1
  IN IF entry = Nil THEN q
     ELSE IF q2.panic THEN q2 ELSE PushStore(q2, entry)

\* func (q *Queue) Push(entry interface{}); a nil slice is the empty sequence.
Push(q, entry) ==
  LET q1 == IF Len(q.buffer) = 0 THEN init(q) ELSE q
      q2 == IF q1.length = Len(q1.buffer) THEN grow(q1) ELSE q1
  IN IF q2.panic THEN q2 ELSE PushStore(q2, entry)

\* Pop without the check for the empty queue.
Pop_noEmptyCheck(q) ==
  IF ~InRange(q.buffer, q.head) THEN [q |-> Panic(q), ret |-> Nil]
  ELSE LET retVal == At(q.buffer, q.head)
           q1 == [q EXCEPT !.buffer = Set(q.buffer, q.head, Nil),
                           !.head = nextpos(q, q.head),
                           !.length = q.length - 1]
           q2 == IF excessCapacity(q1) THEN shrink(q1) ELSE q1
       IN [q |-> q2, ret |-> retVal]

\* Pop that leaves the popped value in its slot.
Pop_keepsSlot(q) ==
  IF q.length = 0 THEN [q |-> q, ret |-> Nil]
  ELSE IF ~InRange(q.buffer, q.head) THEN [q |-> Panic(q), ret |-> Nil]
  ELSE LET retVal == At(q.buffer, q.head)
           q1 == [q EXCEPT !.head = nextpos(q, q.head),
                           !.length = q.length - 1]
           q2 == IF excessCapacity(q1) THEN shrink(q1) ELSE q1
       IN [q |-> q2, ret |-> retVal]

\* Pop that does not advance head.
Pop_noAdvance(q) ==
  IF q.length = 0 THEN [q |-> q, ret |-> Nil]
  ELSE IF ~InRange(q.buffer, q.head) THEN [q |-> Panic(q), ret |-> Nil]
  ELSE LET retVal == At(q.buffer, q.head)
           q1 == [q EXCEPT !.buffer = Set(q.buffer, q.head, Nil),
                           !.length = q.length - 1]
           q2 == IF excessCapacity(q1) THEN shrink(q1) ELSE q1
       IN [q |-> q2, ret |-> retVal]

\* Pop that clears the slot after advancing head: q.buffer[q.head] = nil
\* then hits the new head.
Pop_clearsAfterAdvance(q) ==
  IF q.length = 0 THEN [q |-> q, ret |-> Nil]
  ELSE IF ~InRange(q.buffer, q.head) THEN [q |-> Panic(q), ret |-> Nil]
  ELSE LET retVal == At(q.buffer, q.head)
           q1 == [q EXCEPT !.buffer = Set(q.buffer, nextpos(q, q.head), Nil),
                           !.head = nextpos(q, q.head),
                           !.length = q.length - 1]
           q2 == IF excessCapacity(q1) THEN shrink(q1) ELSE q1
       IN [q |-> q2, ret |-> retVal]

\* Pop that forgets q.length--.
Pop_noDecrement(q) ==
  IF q.length = 0 THEN [q |-> q, ret |-> Nil]
  ELSE IF ~InRange(q.buffer, q.head) THEN [q |-> Panic(q), ret |-> Nil]
  ELSE LET retVal == At(q.buffer, q.head)
           q1 == [q EXCEPT !.buffer = Set(q.buffer, q.head, Nil),
                           !.head = nextpos(q, q.head)]
           q2 == IF excessCapacity(q1) THEN shrink(q1) ELSE q1
       IN [q |-> q2, ret |-> retVal]

\* func (q *Queue) Pop() interface{}: the queue afterwards and the result.
Pop(q) ==
  IF q.length = 0 THEN [q |-> q, ret |-> Nil]
  ELSE IF ~InRange(q.buffer, q.head) THEN [q |-> Panic(q), ret |-> Nil]
  ELSE LET retVal == At(q.buffer, q.head)
           q1 == [q EXCEPT !.buffer = Set(q.buffer, q.head, Nil),
                           !.head = nextpos(q, q.head),
                           !.length = q.length - 1]
           q2 == IF excessCapacity(q1) THEN shrink(q1) ELSE q1
       IN [q |-> q2, ret |-> retVal]

\* Peek that removes the entry it returns.
Peek_consumes(q) == Pop(q)

\* func (q *Queue) Peek() interface{}
Peek(q) ==
  IF ~InRange(q.buffer, q.head) THEN [q |-> Panic(q), ret |-> Nil]
  ELSE [q |-> q, ret |-> At(q.buffer, q.head)]

\* func (q *Queue) Length() int
Length(q) == q.length

\* Clear that keeps the capacity and only empties the buffer.
Clear_keepsCapacity(q) == Queue(Make(Len(q.buffer)), 0, 0, 0, q.panic)

\* func (q *Queue) Clear()
Clear(q) == init(q)

\* The loop of String writing the delimiter after every entry (i < q.length).
RECURSIVE StringLoop_trailingDelimiter(_, _, _)
StringLoop_trailingDelimiter(q, i, j) ==
  IF i < q.length
  THEN Sprintf(At(q.buffer, j))
         \o (IF i < q.length THEN " | " ELSE "")
         \o StringLoop_trailingDelimiter(q, i + 1, nextpos(q, j))
  ELSE ""

\* The loop of String from iteration i at buffer position j: StringLoop is
\* the text written from there on, StringReads the buffer positions read.
RECURSIVE StringLoop(_, _, _)
StringLoop(q, i, j) ==
  IF i < q.length
  THEN Sprintf(At(q.buffer, j))
         \o (IF i < q.length - 1 THEN " | " ELSE "")
         \o StringLoop(q, i + 1, nextpos(q, j))
  ELSE ""

RECURSIVE StringReads(_, _, _)
StringReads(q, i, j) ==
  IF i < q.length /\ InRange(q.buffer, j)
  THEN {j} \cup StringReads(q, i + 1, nextpos(q, j))
  ELSE IF i < q.length THEN {j} ELSE {}

\* func (q *Queue) String() string
String(q) ==
  IF \E j \in StringReads(q, 0, q.head) : ~InRange(q.buffer, j)
  THEN [q |-> Panic(q), ret |-> ""]
  ELSE [q |-> q, ret |-> StringLoop(q, 0, q.head)]

\* The call of resize an operation makes, if any: which of grow and shrink
\* made it, the queue at the moment of the call and the size asked for.
NoResize == [called |-> FALSE]
ResizeCall(kind, q, size) == [called |-> TRUE, kind |-> kind, q |-> q, size |-> size]

\* The call Push makes: grow, when the buffer is full after the lazy init.
PushResize(q) ==
  LET q1 == IF Len(q.buffer) = 0 THEN init(q) ELSE q
  IN IF q1.length = Len(q1.buffer)
     THEN ResizeCall("grow", q1, Len(q1.buffer) * 2)
     ELSE NoResize

\* The call Pop makes: shrink, when the removal left excess capacity.
PopResize(q) ==
  IF q.length = 0 \/ ~InRange(q.buffer, q.head) THEN NoResize
  ELSE LET q1 == [q EXCEPT !.buffer = Set(q.buffer, q.head, Nil),
                           !.head = nextpos(q, q.head),
                           !.length = q.length - 1]
       IN IF excessCapacity(q1)
          THEN ResizeCall("shrink", q1, Len(q1.buffer) \div 2)
          ELSE NoResize

\* func NewQueue() *Queue: new(Queue) is the zero value, then init.
NewQueue == init(Queue(<<>>, 0, 0, 0, FALSE))

\* ------------------------------------------------------------------------
\* State
\* ------------------------------------------------------------------------

VARIABLES
  buffer,    \* q.buffer
  head,      \* q.head
  tail,      \* q.tail
  length,    \* q.length
  panicked,  \* an operation panicked (index or slice bounds out of range)
  op,        \* the last call: its name and, for Push, its argument
  ret,       \* what the last call returned
  pre,       \* q.length and len(q.buffer) when the last call was made
  ref,       \* reference FIFO: an unbounded list stepped side by side
  rz,        \* the call of resize the last call made, if any
  run        \* progress of a run "n Push, then n Pop, then one Pop" from a fresh queue

vars == <<buffer, head, tail, length, panicked, op, ret, pre, ref, rz, run>>

\* The queue as one value.
Q == Queue(buffer, head, tail, length, panicked)

SetQ(q) ==
  /\ buffer' = q.buffer
  /\ head' = q.head
  /\ tail' = q.tail
  /\ length' = q.length
  /\ panicked' = q.panic

Pre == [length |-> length, cap |-> Len(buffer)]

NoRun == [ok |-> FALSE, n |-> 0, k |-> 0]

Init ==
  /\ buffer = NewQueue.buffer
  /\ head = NewQueue.head
  /\ tail = NewQueue.tail
  /\ length = NewQueue.length
  /\ panicked = NewQueue.panic
  /\ op = [name |-> "NewQueue"]
  /\ ret = [kind |-> "none"]
  /\ pre = [length |-> 0, cap |-> 0]
  /\ ref = <<>>
  /\ rz = NoResize
  /\ run = [ok |-> TRUE, n |-> 0, k |-> 0]

\* ------------------------------------------------------------------------
\* Actions: one per exported method
\* ------------------------------------------------------------------------

PushAct(v) ==
  /\ ~panicked
  /\ SetQ(Push(Q, v))
  /\ op' = [name |-> "Push", arg |-> v]
  /\ ret' = [kind |-> "none"]
  /\ pre' = Pre
  /\ ref' = Append(ref, v)
  /\ rz' = PushResize(Q)
  /\ run' = IF run.ok /\ run.k = 0 THEN [run EXCEPT !.n = run.n + 1] ELSE NoRun

PopAct ==
  /\ ~panicked
  /\ SetQ(Pop(Q).q)
  /\ op' = [name |-> "Pop"]
  /\ ret' = [kind |-> "value", val |-> Pop(Q).ret]
  /\ pre' = Pre
  /\ ref' = IF ref = <<>> THEN ref ELSE Tail(ref)
  /\ rz' = PopResize(Q)
  /\ run' = IF run.ok /\ run.k <= run.n THEN [run EXCEPT !.k = run.k + 1] ELSE NoRun

PeekAct ==
  /\ ~panicked
  /\ SetQ(Peek(Q).q)
  /\ op' = [name |-> "Peek"]
  /\ ret' = [kind |-> "value", val |-> Peek(Q).ret]
  /\ pre' = Pre
  /\ run' = NoRun
  /\ rz' = NoResize
  /\ UNCHANGED ref

LengthAct ==
  /\ ~panicked
  /\ op' = [name |-> "Length"]
  /\ ret' = [kind |-> "int", n |-> Length(Q)]
  /\ pre' = Pre
  /\ run' = NoRun
  /\ rz' = NoResize
  /\ UNCHANGED <<buffer, head, tail, length, panicked, ref>>

StringAct ==
  /\ ~panicked
  /\ SetQ(String(Q).q)
  /\ op' = [name |-> "String"]
  /\ ret' = [kind |-> "string", str |-> String(Q).ret]
  /\ pre' = Pre
  /\ run' = NoRun
  /\ rz' = NoResize
  /\ UNCHANGED ref

ClearAct ==
  /\ ~panicked
  /\ SetQ(Clear(Q))
  /\ op' = [name |-> "Clear"]
  /\ ret' = [kind |-> "none"]
  /\ pre' = Pre
  /\ ref' = <<>>
  /\ rz' = NoResize
  /\ run' = [ok |-> TRUE, n |-> 0, k |-> 0]

DoPush == \E v \in Values : Len(ref) < MaxLen /\ PushAct(v)

Next ==
  \/ DoPush
  \/ PopAct
  \/ PeekAct
  \/ LengthAct
  \/ StringAct
  \/ ClearAct

Spec == Init /\ [][Next]_vars

DoRenderPush == \E v \in RenderValues : Len(ref) < MaxRenderLen /\ PushAct(v)

NextRender ==
  \/ DoRenderPush
  \/ PopAct
  \/ PeekAct
  \/ LengthAct
  \/ StringAct
  \/ ClearAct

SpecRender == Init /\ [][NextRender]_vars

\* ------------------------------------------------------------------------
\* Vocabulary of the properties
\* ------------------------------------------------------------------------

\* Buffer positions of the live range: length positions from head, wrapping.
LiveIdx == {(head + k) % Len(buffer) : k \in 0..(length - 1)}

\* The live entries, oldest first, read with plain modular arithmetic.
LiveEntries == [k \in 1..length |-> buffer[((head + k - 1) % Len(buffer)) + 1]]

\* The entries of a list rendered with %v and joined by " | ".
RECURSIVE Join(_)
Join(s) ==
  IF s = <<>> THEN ""
  ELSE IF Len(s) = 1 THEN Sprintf(s[1])
  ELSE Sprintf(s[1]) \o " | " \o Join(Tail(s))

\* The live entries of a queue value q, oldest first.
LiveOf(q) == [k \in 1..q.length |-> q.buffer[((q.head + k - 1) % Len(q.buffer)) + 1]]

\* n is 1, 2, 4, 8, ...
RECURSIVE IsPowerOfTwo(_)
IsPowerOfTwo(n) ==
  IF n <= 1 THEN n = 1
  ELSE n % 2 = 0 /\ IsPowerOfTwo(n \div 2)

\* The live entries of a queue value q sit in one run of consecutive buffer
\* positions: walking them never steps from the last slot back to slot 0.
Contiguous(q) ==
  \A k \in 1..(q.length - 1) :
    (q.head + k) % Len(q.buffer) = ((q.head + k - 1) % Len(q.buffer)) + 1

\* The first element of the reference list, nil for the empty list.
RefFirst == IF ref = <<>> THEN Nil ELSE Head(ref)

\* ------------------------------------------------------------------------
\* Properties
\* ------------------------------------------------------------------------

\* C1: the queue refines a reference list-based FIFO stepped side by side:
\* in every reachable state no call has panicked, Length() is the length of
\* the reference list, the live entries walked from head equal the reference
\* list, and a Pop() on a non-empty queue returns the list's first element.
C1_MatchesReferenceFifo ==
  /\ ~panicked
  /\ Len(buffer) >= 1
  /\ Length(Q) = Len(ref)
  /\ LiveEntries = ref
  /\ (ref # <<>> => Pop(Q).ret = Head(ref))
  /\ (op.name = "Length" => ret.n = Len(ref))

\* Values came out in push order across a grow to 16 and the shrink back to
\* 8, whose copy straightened a wrapped live range.
C1_Witness ==
  /\ op.name = "Pop"
  /\ pre.cap = 16
  /\ Len(buffer) = 8
  /\ ret.val = Str("A")
  /\ ref = <<Nil, Str("A"), Nil>>

\* C2: a queue fresh from NewQueue() has Length() 0, and Pop() and Peek()
\* on it both return nil (without panicking).
C2_FreshQueueIsEmpty ==
  op.name = "NewQueue" =>
    /\ Length(Q) = 0
    /\ Pop(Q).ret = Nil /\ ~Pop(Q).q.panic
    /\ Peek(Q).ret = Nil /\ ~Peek(Q).q.panic

C2_Witness ==
  /\ op.name = "NewQueue"
  /\ Len(buffer) = 1
  /\ ref = <<>>

\* C3: a Pop() made when length = 0 returns nil and leaves buffer, head,
\* tail, length (and so the capacity) unchanged.
C3_PopOnEmptyIsNoOp ==
  [][(op'.name = "Pop" /\ length = 0) =>
       (ret'.val = Nil /\ UNCHANGED <<buffer, head, tail, length, panicked>>)]_vars

\* A Pop() on a queue that was emptied by pops after having grown to 4.
C3_Witness ==
  /\ op.name = "Pop"
  /\ pre.length = 0
  /\ pre.cap = 4
  /\ ret.val = Nil

\* C4: Peek() returns the oldest not-yet-popped value, which is what the
\* next Pop() would return, when length > 0, and nil when length = 0.
C4_PeekIsOldestOrNil ==
  /\ ~Peek(Q).q.panic
  /\ (length > 0 => ref # <<>> /\ Peek(Q).ret = Head(ref) /\ Peek(Q).ret = Pop(Q).ret)
  /\ (length = 0 => Peek(Q).ret = Nil)
  /\ (op.name = "Peek" => ret.val = RefFirst)

\* Peek() on a queue emptied by pops after it had grown to capacity 4.
C4_Witness ==
  /\ op.name = "Peek"
  /\ length = 0
  /\ Len(buffer) = 4
  /\ head # 0
  /\ ret.val = Nil

\* C5: after Clear() the queue is in the initial empty state (length, head
\* and tail 0, capacity 1, the slot nil), and a Pop() or Peek() made right
\* then returns nil.
C5_ClearResets ==
  op.name = "Clear" =>
    /\ length = 0 /\ head = 0 /\ tail = 0
    /\ buffer = <<Nil>>
    /\ Pop(Q).ret = Nil /\ ~Pop(Q).q.panic
    /\ Peek(Q).ret = Nil /\ ~Peek(Q).q.panic

\* Clear() of a queue holding 9 entries in a buffer of 16.
C5_Witness ==
  /\ op.name = "Clear"
  /\ pre.length = 9
  /\ pre.cap = 16

\* C6: after n Push calls followed by n Pop calls on a fresh queue Length()
\* is 0, and one further Pop() returns nil.
C6_PushNPopN ==
  /\ (run.ok /\ run.k = run.n => ~panicked /\ Length(Q) = 0)
  /\ (run.ok /\ run.k = run.n + 1 =>
        ~panicked /\ Length(Q) = 0 /\ op.name = "Pop" /\ ret.val = Nil)

\* 9 pushes (growing to 16), 9 pops (shrinking on the way), one more Pop.
C6_Witness ==
  /\ run.ok
  /\ run.n = 9
  /\ run.k = 10
  /\ ret.val = Nil

\* C7: String() renders the live entries oldest first, joined by " | " with
\* no leading or trailing delimiter, and "" for the empty queue; it reads
\* only positions of the live range; Push A, Push B, Pop, Push C, Push D on a
\* new queue renders "B | C | D".
C7_StringRendersLiveEntries ==
  /\ ~String(Q).q.panic
  /\ String(Q).ret = Join(ref)
  /\ (length = 0 => String(Q).ret = "")
  /\ StringReads(Q, 0, head) \subseteq LiveIdx
  /\ (op.name = "String" => ret.str = Join(ref))
  /\ String(Push(Push(Pop(Push(Push(NewQueue, Str("A")), Str("B"))).q,
                      Str("C")), Str("D"))).ret = "B | C | D"

\* The rendering of the queue the test's sequence builds.
C7_Witness ==
  /\ op.name = "String"
  /\ ret.str = "B | C | D"
  /\ buffer = <<Str("B"), Str("C"), Str("D"), Nil>>

\* C8: Push accepts every value, nil included: it adds one to length and the
\* value is the newest live entry; on a non-empty queue Pop() and Peek()
\* give nil exactly when the oldest entry is a pushed nil.
C8_PushAcceptsNil ==
  /\ (op.name = "Push" =>
        /\ ~panicked
        /\ length = pre.length + 1
        /\ ref # <<>> /\ ref[Len(ref)] = op.arg
        /\ LiveEntries = ref)
  /\ (length > 0 /\ ref # <<>> =>
        /\ (Pop(Q).ret = Nil) <=> (Head(ref) = Nil)
        /\ (Peek(Q).ret = Nil) <=> (Head(ref) = Nil))

\* A Pop() that returned a pushed nil from a queue of three entries.
C8_Witness ==
  /\ op.name = "Pop"
  /\ pre.length = 3
  /\ ret.val = Nil
  /\ ref = <<Str("A"), Nil>>

\* C9: a Push changes the capacity exactly when length = capacity at the
\* call, and then the capacity doubles; otherwise it is unchanged.
C9_GrowExactlyWhenFull ==
  op.name = "Push" =>
    /\ (Len(buffer) # pre.cap) <=> (pre.length = pre.cap)
    /\ (Len(buffer) # pre.cap => Len(buffer) = 2 * pre.cap)
    /\ (pre.length < pre.cap => Len(buffer) = pre.cap)

\* A Push into a full buffer of 8, which doubled to 16.
C9_Witness ==
  /\ op.name = "Push"
  /\ pre.length = 8
  /\ pre.cap = 8
  /\ Len(buffer) = 16

\* C10: a Pop changes the capacity exactly when, after the removal,
\* length > 0 and length < capacity / 4; the capacity then halves; no Pop
\* leaves a capacity below 1.
C10_ShrinkExactlyWhenUnderQuarter ==
  op.name = "Pop" =>
    /\ (Len(buffer) # pre.cap) <=> (length > 0 /\ length < pre.cap \div 4)
    /\ (Len(buffer) # pre.cap => 2 * Len(buffer) = pre.cap)
    /\ Len(buffer) >= 1

\* A Pop that left 3 entries in a buffer of 16, which halved to 8.
C10_Witness ==
  /\ op.name = "Pop"
  /\ pre.cap = 16
  /\ length = 3
  /\ Len(buffer) = 8

\* C11: in every reachable state the capacity is a power of two and at
\* least 1, so the masks of nextpos and prevpos compute (i + 1) and (i - 1)
\* modulo the capacity.
C11_CapacityIsPowerOfTwo ==
  /\ Len(buffer) >= 1
  /\ IsPowerOfTwo(Len(buffer))
  /\ \A i \in 0..(Len(buffer) - 1) :
        /\ nextpos(Q, i) = (i + 1) % Len(buffer)
        /\ prevpos(Q, i) = (i - 1) % Len(buffer)

\* A buffer of 16 whose live range runs over the end of the buffer.
C11_Witness ==
  /\ Len(buffer) = 16
  /\ head = 15
  /\ tail = 3

\* C12: in every reachable state tail = (head + length) mod capacity, and
\* head = tail exactly when the queue is empty or completely full.
C12_TailIsHeadPlusLength ==
  /\ Len(buffer) >= 1
  /\ tail = (head + length) % Len(buffer)
  /\ (head = tail) <=> (length = 0 \/ length = Len(buffer))

\* A full buffer of 8 with head = tail in the middle of the buffer.
C12_Witness ==
  /\ Len(buffer) = 8
  /\ length = 8
  /\ head = 3
  /\ tail = 3

\* C13: in every reachable state head and tail are within 0..capacity-1 and
\* length within 0..capacity, and no operation made or makeable from the
\* state indexes or slices outside the buffer.
C13_IndicesInRange ==
  /\ 0 <= head /\ head < Len(buffer)
  /\ 0 <= tail /\ tail < Len(buffer)
  /\ 0 <= length /\ length <= Len(buffer)
  /\ ~panicked
  /\ \A v \in Values : ~Push(Q, v).panic
  /\ ~Pop(Q).q.panic
  /\ ~Peek(Q).q.panic
  /\ ~String(Q).q.panic
  /\ StringReads(Q, 0, head) \subseteq 0..(Len(buffer) - 1)

\* String() walked a live range that starts at the last slot of the buffer.
C13_Witness ==
  /\ op.name = "String"
  /\ Len(buffer) = 8
  /\ head = 7
  /\ length = 4

\* C14: right after every resize head = 0, tail = length, length is what it
\* was, and positions 0..length-1 of the new buffer hold the old live
\* entries in their logical order; a shrink ends the Pop in that state, a
\* grow is followed by the store of the pushed entry.
C14_ResizeStraightens ==
  rz.called =>
    LET r == resize(rz.q, rz.size)
    IN /\ ~r.panic
       /\ r.head = 0
       /\ r.tail = rz.q.length
       /\ r.length = rz.q.length
       /\ Len(r.buffer) >= rz.q.length
       /\ SubSeq(r.buffer, 1, rz.q.length) = LiveOf(rz.q)
       /\ (rz.kind = "shrink" => Q = r)
       /\ (rz.kind = "grow" => Q = PushStore(r, op.arg))

\* A shrink from 16 whose three live entries sat at positions 15, 0 and 1.
C14_Witness ==
  /\ rz.called
  /\ rz.kind = "shrink"
  /\ rz.q.head = 15
  /\ rz.q.tail = 2
  /\ LiveOf(rz.q) = <<Str("A"), Nil, Str("A")>>

\* C15 as stated: whenever resize is called, head < tail in the old buffer
\* holds exactly when the live entries occupy one contiguous, non-wrapping
\* run of the old buffer.
C15_HeadBeforeTailIffContiguous ==
  rz.called => ((rz.q.head < rz.q.tail) <=> Contiguous(rz.q))

\* C15 amended: whenever resize is called, head < tail implies that the live
\* entries are the contiguous run buffer[head:tail]; the converse fails
\* only for a run that ends exactly at the end of the buffer (tail = 0),
\* where the two-copy path runs and its second copy is empty. So head < tail
\* holds exactly when the live entries are contiguous and tail # 0, and in
\* the other case the entries are buffer[head:] followed by buffer[:tail].
C15_HeadBeforeTailIffContiguousBeforeEnd ==
  rz.called =>
    /\ rz.q.length > 0
    /\ (rz.q.head < rz.q.tail) <=> (Contiguous(rz.q) /\ rz.q.tail # 0)
    /\ (rz.q.head < rz.q.tail =>
          /\ SliceOK(rz.q.buffer, rz.q.head, rz.q.tail)
          /\ Slice(rz.q.buffer, rz.q.head, rz.q.tail) = LiveOf(rz.q))
    /\ (~(rz.q.head < rz.q.tail) =>
          /\ SliceOK(rz.q.buffer, rz.q.head, Len(rz.q.buffer))
          /\ SliceOK(rz.q.buffer, 0, rz.q.tail)
          /\ Slice(rz.q.buffer, rz.q.head, Len(rz.q.buffer))
                \o Slice(rz.q.buffer, 0, rz.q.tail) = LiveOf(rz.q))

\* A grow of a full buffer of 8 whose entries sit at 0..7: contiguous, yet
\* head = tail = 0.
C15_Witness ==
  /\ rz.called
  /\ rz.kind = "grow"
  /\ Len(rz.q.buffer) = 8
  /\ rz.q.head = 0
  /\ rz.q.tail = 0

\* C16: in every reachable state every buffer slot outside the live range
\* holds nil: the slot a Pop vacates is cleared and no popped value stays
\* anywhere in the buffer, also after a grow or a shrink.
C16_SlotsOutsideLiveRangeAreNil ==
  /\ \A i \in 0..(Len(buffer) - 1) : i \notin LiveIdx => At(buffer, i) = Nil
  /\ (op.name = "Pop" /\ pre.length > 0 /\ ~rz.called =>
        At(buffer, (head - 1) % Len(buffer)) = Nil)

\* A Pop that returned "A" from slot 2 of a buffer of 8 and left two entries.
C16_Witness ==
  /\ op.name = "Pop"
  /\ ret.val = Str("A")
  /\ Len(buffer) = 8
  /\ head = 3
  /\ ref = <<Str("A"), Str("A")>>

\* C17: a Pop that removes the last entry leaves the capacity as it was.
C17_PopToEmptyKeepsCapacity ==
  op.name = "Pop" /\ pre.length = 1 =>
    /\ length = 0
    /\ ~rz.called
    /\ Len(buffer) = pre.cap

\* The last entry popped from a buffer of 4, where 0 < 4 / 4.
C17_Witness ==
  /\ op.name = "Pop"
  /\ pre.length = 1
  /\ pre.cap = 4
  /\ length = 0

\* C18: Peek(), Length() and String() change none of buffer, head, tail,
\* length (nor the capacity).
C18_ObserversArePure ==
  [][op'.name \in {"Peek", "Length", "String"} =>
       UNCHANGED <<buffer, head, tail, length, panicked>>]_vars

\* Peek() on a queue of five entries in a buffer of 8.
C18_Witness ==
  /\ op.name = "Peek"
  /\ ret.val = Str("A")
  /\ Len(buffer) = 8
  /\ length = 5

\* C19: in every reachable state capacity <= 4 or length >= capacity / 4;
\* so an empty queue has capacity at most 4, right after a shrink the shrink
\* condition is false, and capacity < 4 * (length + 1) when capacity > 4.
C19_BoundedSlack ==
  /\ (Len(buffer) <= 4 \/ length >= Len(buffer) \div 4)
  /\ (length = 0 => Len(buffer) <= 4)
  /\ (rz.called /\ rz.kind = "shrink" => ~excessCapacity(Q))
  /\ (Len(buffer) > 4 => Len(buffer) < 4 * (length + 1))

\* A Pop that left exactly a quarter of a buffer of 16 in use.
C19_Witness ==
  /\ op.name = "Pop"
  /\ Len(buffer) = 16
  /\ length = 4

\* C20: resize is only called with a size that is an even power of two
\* >= 2 (so its rounding of an odd size never acts): grow with a capacity
\* >= 1, shrink with a capacity >= 8, leaving a capacity >= 4; and once the
\* capacity is 4 or more only Clear() brings it below 4.
C20_ResizeSizes ==
  /\ [](rz.called =>
         /\ rz.size >= 2
         /\ rz.size % 2 = 0
         /\ IsPowerOfTwo(rz.size)
         /\ Len(buffer) = rz.size
         /\ (rz.kind = "grow" => Len(rz.q.buffer) >= 1)
         /\ (rz.kind = "shrink" => Len(rz.q.buffer) >= 8 /\ Len(buffer) >= 4))
  /\ [][Len(buffer) >= 4 /\ op'.name # "Clear" => Len(buffer') >= 4]_vars

\* The smallest shrink: from 8 to 4.
C20_Witness ==
  /\ rz.called
  /\ rz.kind = "shrink"
  /\ Len(rz.q.buffer) = 8
  /\ rz.size = 4

====
